---- MODULE Spec2Model ----
(***************************************************************************)
(* A model of ComfyUI-to-Python-Extension (src/comfyui_to_python.py):      *)
(* LoadOrderDeterminer, which orders the nodes of a workflow graph, and    *)
(* CodeGenerator, which turns that load order into a Python program.       *)
(*                                                                         *)
(* Python values are records tagged by their type.  A Python str that the  *)
(* code takes apart or concatenates (node ids, class types, string         *)
(* literals) is a sequence of one-character strings; the names of          *)
(* parameters are only compared and stay TLA+ strings.  A dict is a        *)
(* sequence of entries in insertion order.                                 *)
(***************************************************************************)
EXTENDS Integers, Sequences, FiniteSets, TLC

VARIABLES
    data,       \* the workflow graph (json.loads of the workflow)
    base,       \* CodeGenerator.base_node_class_mappings (its keys)
    hashseed,   \* the process's string-hash seed: fixes set iteration order
    self_queue_size, \* ComfyUItoPython.queue_size
    det,        \* the LoadOrderDeterminer instance
    calls,      \* determine_load_order calls made on that instance
    returns,    \* what each determine_load_order call returned or raised
    gen,        \* the locals of the running generate_workflow call
    texts,      \* what each generate_workflow call returned or raised
    loaded,     \* init_custom_nodes has added the custom classes to the
                \* process's NODE_CLASS_MAPPINGS
    runs,       \* the ComfyUItoPython constructions of the process
    heap,       \* the LoadOrderDeterminer instances those made
    clean_arg,  \* the class_type given to a clean_variable_name call
    clean_names \* what that call returned or raised, and then the call on
                \* its own result

vars == <<data, base, hashseed, self_queue_size, det, calls, returns, gen, texts,
          loaded, runs, heap, clean_arg, clean_names>>
\* The state of one conversion, and the state of a process of several.
solovars == <<data, base, hashseed, self_queue_size, det, calls, returns, gen, texts>>
procvars == <<loaded, runs, heap>>
\* The state of a call of clean_variable_name on its own.
cleanvars == <<clean_arg, clean_names>>

(***************************************************************************)
(* Bounds of the model.                                                    *)
(***************************************************************************)
MaxNodes == 2       \* nodes of a workflow graph
MaxCalls == 2       \* calls of determine_load_order, and of generate_workflow
MaxDraw == 2        \* distinct outcomes of one random.randint draw
MaxRuns == 2        \* ComfyUItoPython constructions in one process
MaxLen == 3         \* characters of a class_type given to clean_variable_name

(***************************************************************************)
(* Python values.                                                          *)
(***************************************************************************)
IntVal(n) == [t |-> "int", n |-> n]
StrVal(s) == [t |-> "str", s |-> s]
ListVal(items) == [t |-> "list", items |-> items]
\* A Reference [source_node_id, output_index] is a two-element list.
Ref(src, idx) == ListVal(<<StrVal(src), IntVal(idx)>>)
\* isinstance(val, list)
IsList(v) == v.t = "list"
\* Whether a value can be a dict key or a set member (a list cannot).
Hashable(v) == v.t # "list" /\ v.t # "dict"

\* The node ids "1", "2", ... of a graph of n nodes, in insertion order.
Digit(i) == CASE i = 1 -> "1" [] i = 2 -> "2" [] i = 3 -> "3" [] i = 4 -> "4"
              [] i = 5 -> "5" [] OTHER -> "6"
NodeId(i) == <<Digit(i)>>
\* An id that is never a key of the graph.
DanglingId == <<"9">>

(***************************************************************************)
(* The node registry, NODE_CLASS_MAPPINGS of ComfyUI's nodes module.  Each *)
(* class gives CATEGORY, FUNCTION, INPUT_TYPES() (the "required" names, or *)
(* no "required" key, and the "hidden" names) and the signature of its     *)
(* FUNCTION (the declared parameters, and whether it takes **kwargs).      *)
(***************************************************************************)
Loader == <<"L", "d">>
Encoder == <<"E", "n">>
Sampler == <<"K", "S">>
PreviewImage == <<"P", "r", "e", "v", "i", "e", "w", "I", "m", "a", "g", "e">>
CustomId == <<"C", "-", "i", "d">>
Unregistered == <<"Z", "z">>
\* A second sampler class, whose name continues the first one's.
SamplerOne == <<"K", "S", "-", "1">>
\* A class whose FUNCTION takes **kwargs, and one that reports a hidden
\* unique_id its FUNCTION does not declare.
AnyArgs == <<"A", "k">>
HiddenId == <<"H", "i">>

NODE_CLASS_MAPPINGS ==
    (Loader :> [CATEGORY |-> "loaders", FUNCTION |-> "load",
                has_required |-> TRUE, required |-> <<"input">>,
                hidden |-> {}, params |-> <<"input">>, catch_all |-> FALSE])
 @@ (Encoder :> [CATEGORY |-> "conditioning", FUNCTION |-> "encode",
                 has_required |-> TRUE, required |-> <<"input">>,
                 hidden |-> {}, params |-> <<"input", "noise_seed">>,
                 catch_all |-> FALSE])
 @@ (Sampler :> [CATEGORY |-> "sampling", FUNCTION |-> "sample",
                 has_required |-> TRUE, required |-> <<"input", "seed">>,
                 hidden |-> {}, params |-> <<"input", "seed">>,
                 catch_all |-> FALSE])
 @@ (SamplerOne :> [CATEGORY |-> "sampling", FUNCTION |-> "sample",
                    has_required |-> TRUE, required |-> <<"input", "seed">>,
                    hidden |-> {}, params |-> <<"input", "seed">>,
                    catch_all |-> FALSE])
 @@ (PreviewImage :> [CATEGORY |-> "image", FUNCTION |-> "save_images",
                      has_required |-> TRUE, required |-> <<"input">>,
                      hidden |-> {"prompt"},
                      params |-> <<"input", "prompt">>, catch_all |-> FALSE])
 @@ (CustomId :> [CATEGORY |-> "custom", FUNCTION |-> "run",
                  has_required |-> TRUE, required |-> <<"input">>,
                  hidden |-> {"unique_id"},
                  params |-> <<"input", "unique_id">>, catch_all |-> FALSE])
 @@ (AnyArgs :> [CATEGORY |-> "custom", FUNCTION |-> "run",
                 has_required |-> TRUE, required |-> <<"input">>,
                 hidden |-> {}, params |-> <<"kwargs">>, catch_all |-> TRUE])
 @@ (HiddenId :> [CATEGORY |-> "custom", FUNCTION |-> "run",
                  has_required |-> TRUE, required |-> <<"input">>,
                  hidden |-> {"unique_id"},
                  params |-> <<"input">>, catch_all |-> FALSE])

\* The classes of ComfyUI itself; the others come from custom_nodes.
BuiltinTypes == {Loader, Encoder, Sampler, PreviewImage}
\* The classes whose FUNCTION is a coroutine function (async def).
AsyncTypes == {CustomId}

(***************************************************************************)
(* The workflow graph: a dict from node id to {"inputs", "class_type"},    *)
(* kept as the sequence of its items.                                      *)
(***************************************************************************)
Keys(d) == {d[i].key : i \in 1..Len(d)}
\* key in self.data, for any Python value key
HasKey(d, key) == key.t = "str" /\ key.s \in Keys(d)
\* self.data[key]
NodeOf(d, key) == d[CHOOSE i \in 1..Len(d) : d[i].key = key]
\* inputs.keys()
InputKeys(inputs) == {inputs[i].k : i \in 1..Len(inputs)}
\* inputs[k]
InputVal(inputs, k) == inputs[CHOOSE i \in 1..Len(inputs) : inputs[i].k = k].v

(***************************************************************************)
(* LoadOrderDeterminer.                                                    *)
(***************************************************************************)
\* __init__: nothing visited, an empty load order.
NewDet == [visited |-> {}, load_order |-> <<>>,
           is_special_function |-> FALSE, err |-> "none"]

\* The tuple _dfs appends: (key, self.data[key], self.is_special_function).
\* The second component is the graph's own dict object, named by its key.
Entry(key, flag) == [id |-> key, data |-> key, hoisted |-> flag]

RECURSIVE Dfs(_, _, _), DfsInputs(_, _, _, _)

\* A variant of _dfs that appends the node before it descends.
DfsPreOrder(st, d, key) ==
    LET marked == [st EXCEPT !.visited = @ \cup {key}]
    IN  IF ~HasKey(d, key)
        THEN [marked EXCEPT !.err = "KeyError"]
        ELSE DfsInputs([marked EXCEPT !.load_order =
                           Append(@, Entry(key.s, marked.is_special_function))],
                       d, NodeOf(d, key.s).inputs, 1)

\* A variant of the loop of _dfs that descends only into keys of self.data.
DfsInputsKnownOnly(st, d, inputs, i) ==
    IF st.err # "none" \/ i > Len(inputs)
    THEN st
    ELSE LET val == inputs[i].v
         IN  IF IsList(val) /\ Len(val.items) > 0 /\ HasKey(d, val.items[1])
                /\ val.items[1] \notin st.visited
             THEN DfsInputs(Dfs(st, d, val.items[1]), d, inputs, i + 1)
             ELSE DfsInputs(st, d, inputs, i + 1)

\* _dfs(key): mark, descend into every list-valued input whose first item
\* is not marked, then append.  An exception leaves the marks made so far.
Dfs(st, d, key) ==
    LET marked == [st EXCEPT !.visited = @ \cup {key}]
    IN  IF ~HasKey(d, key)
        THEN [marked EXCEPT !.err = "KeyError"]
        ELSE LET after == DfsInputs(marked, d, NodeOf(d, key.s).inputs, 1)
             IN  IF after.err # "none"
                 THEN after
                 ELSE [after EXCEPT !.load_order =
                          Append(@, Entry(key.s, after.is_special_function))]

\* The loop of _dfs over inputs.items(), from the i-th item on.
DfsInputs(st, d, inputs, i) ==
    IF st.err # "none" \/ i > Len(inputs)
    THEN st
    ELSE LET val == inputs[i].v
         IN  IF ~IsList(val)
             THEN DfsInputs(st, d, inputs, i + 1)
             ELSE IF Len(val.items) = 0
             THEN [st EXCEPT !.err = "IndexError"]
             ELSE IF ~Hashable(val.items[1])
             THEN [st EXCEPT !.err = "TypeError"]
             ELSE IF val.items[1] \notin st.visited
             THEN DfsInputs(Dfs(st, d, val.items[1]), d, inputs, i + 1)
             ELSE DfsInputs(st, d, inputs, i + 1)

\* A variant of the condition that knows loaders and encoders only.
IsLoaderOrEncoder(class_def, node) ==
    \/ class_def.CATEGORY = "loaders"
    \/ class_def.FUNCTION \in {"encode"}

\* The condition of _load_special_functions_first: a loader, an encoder, or
\* a node none of whose inputs is a list.
IsSpecialFunction(class_def, node) ==
    \/ class_def.CATEGORY = "loaders"
    \/ class_def.FUNCTION \in {"encode"}
    \/ ~\E i \in 1..Len(node.inputs) : IsList(node.inputs[i].v)

RECURSIVE LoadSpecialFunctionsFirst(_, _, _)

\* A variant of _load_special_functions_first that looks up the class of
\* the keys not yet visited only.
LoadSpecialFunctionsUnvisited(st, d, i) ==
    IF st.err # "none" \/ i > Len(d)
    THEN st
    ELSE IF StrVal(d[i].key) \in st.visited
    THEN LoadSpecialFunctionsFirst(st, d, i + 1)
    ELSE IF d[i].class_type \notin DOMAIN NODE_CLASS_MAPPINGS
    THEN [st EXCEPT !.err = "KeyError"]
    ELSE IF IsSpecialFunction(NODE_CLASS_MAPPINGS[d[i].class_type], d[i])
    THEN LoadSpecialFunctionsFirst(
             Dfs([st EXCEPT !.is_special_function = TRUE], d, StrVal(d[i].key)),
             d, i + 1)
    ELSE LoadSpecialFunctionsFirst(st, d, i + 1)

\* _load_special_functions_first, from the i-th key of self.data on.  The
\* class of every key is looked up and instantiated, special or not.
LoadSpecialFunctionsFirst(st, d, i) ==
    IF st.err # "none" \/ i > Len(d)
    THEN st
    ELSE IF d[i].class_type \notin DOMAIN NODE_CLASS_MAPPINGS
    THEN [st EXCEPT !.err = "KeyError"]
    ELSE IF IsSpecialFunction(NODE_CLASS_MAPPINGS[d[i].class_type], d[i])
    THEN LET flagged == [st EXCEPT !.is_special_function = TRUE]
         IN  LoadSpecialFunctionsFirst(
                 IF StrVal(d[i].key) \notin flagged.visited
                 THEN Dfs(flagged, d, StrVal(d[i].key))
                 ELSE flagged,
                 d, i + 1)
    ELSE LoadSpecialFunctionsFirst(st, d, i + 1)

\* A variant of the second loop that looks at the first key only.
DfsRemainingFirstKey(st, d, i) ==
    IF st.err # "none" \/ i > Len(d) \/ StrVal(d[i].key) \in st.visited
    THEN st
    ELSE Dfs(st, d, StrVal(d[i].key))

RECURSIVE DfsRemaining(_, _, _)
\* The loop of determine_load_order over self.data, from the i-th key on.
DfsRemaining(st, d, i) ==
    IF st.err # "none" \/ i > Len(d)
    THEN st
    ELSE DfsRemaining(IF StrVal(d[i].key) \notin st.visited
                      THEN Dfs(st, d, StrVal(d[i].key))
                      ELSE st,
                      d, i + 1)

\* A variant of determine_load_order that forgets the marks of an earlier
\* call and keeps its load order.
DetermineLoadOrderUnmarked(st, d) ==
    LET first == LoadSpecialFunctionsFirst([st EXCEPT !.visited = {}], d, 1)
    IN  IF first.err # "none"
        THEN first
        ELSE DfsRemaining([first EXCEPT !.is_special_function = FALSE], d, 1)

\* A variant of determine_load_order that leaves is_special_function as
\* _load_special_functions_first set it.
DetermineLoadOrderFlagKept(st, d) ==
    LET first == LoadSpecialFunctionsFirst(st, d, 1)
    IN  IF first.err # "none"
        THEN first
        ELSE DfsRemaining(first, d, 1)

\* determine_load_order on an instance in state st (st.err = "none").
DetermineLoadOrderFrom(st, d) ==
    LET first == LoadSpecialFunctionsFirst(st, d, 1)
    IN  IF first.err # "none"
        THEN first
        ELSE DfsRemaining([first EXCEPT !.is_special_function = FALSE], d, 1)

(***************************************************************************)
(* CodeGenerator.                                                          *)
(***************************************************************************)
UpperCase == <<"A", "B", "C", "D", "E", "F", "G", "H", "I", "J", "K", "L",
               "M", "N", "O", "P", "Q", "R", "S", "T", "U", "V", "W", "X",
               "Y", "Z">>
LowerCase == <<"a", "b", "c", "d", "e", "f", "g", "h", "i", "j", "k", "l",
               "m", "n", "o", "p", "q", "r", "s", "t", "u", "v", "w", "x",
               "y", "z">>
Digits == {"0", "1", "2", "3", "4", "5", "6", "7", "8", "9"}
Whitespace == {" ", "\t", "\n", "\r"}

\* str.lower(), one character
ToLower ==
    [c \in {UpperCase[i] : i \in 1..Len(UpperCase)} |->
        LowerCase[CHOOSE i \in 1..Len(UpperCase) : UpperCase[i] = c]]
LowerChar(c) == IF c \in DOMAIN ToLower THEN ToLower[c] ELSE c

\* str.strip()
Strip(s) ==
    LET inner == {i \in 1..Len(s) : s[i] \notin Whitespace}
    IN  IF inner = {}
        THEN <<>>
        ELSE LET lo == CHOOSE i \in inner : \A j \in inner : i <= j
                 hi == CHOOSE i \in inner : \A j \in inner : j <= i
             IN  SubSeq(s, lo, hi)

\* The character class [a-z0-9_] of clean_variable_name's re.sub.
NameChars == {LowerCase[i] : i \in 1..Len(LowerCase)} \cup Digits \cup {"_"}
IsNameChar(c) == c \in NameChars

\* clean_variable_name up to its re.sub: lower, strip, '-' and ' ' to '_',
\* every other character outside [a-z0-9_] removed.
CleanChars(class_type) ==
    LET lowered == [i \in 1..Len(class_type) |-> LowerChar(class_type[i])]
        stripped == Strip(lowered)
        replaced == [i \in 1..Len(stripped) |->
                        IF stripped[i] \in {"-", " "} THEN "_" ELSE stripped[i]]
    IN  SelectSeq(replaced, IsNameChar)

\* clean_name[0] of an empty string: clean_variable_name raises IndexError.
CleanRaises(class_type) == CleanChars(class_type) = <<>>

\* clean_variable_name(class_type), when it returns.
CleanVariableName(class_type) ==
    LET clean_name == CleanChars(class_type)
    IN  IF clean_name[1] \in Digits THEN <<"_">> \o clean_name ELSE clean_name

\* A variant of get_class_info that instantiates every class through its
\* import.
GetClassInfoStatic(class_type, base_keys) ==
    [kind |-> "init", var |-> CleanVariableName(class_type),
     static |-> TRUE, cls |-> Strip(class_type)]

\* get_class_info: the instantiation statement of a class, through a
\* static import when the class is in the baseline, else through
\* NODE_CLASS_MAPPINGS["..."]().
GetClassInfo(class_type, base_keys) ==
    [kind |-> "init", var |-> CleanVariableName(class_type),
     static |-> class_type \in base_keys,
     cls |-> IF class_type \in base_keys THEN Strip(class_type)
             ELSE class_type]

\* get_function_parameters: the declared names, or None with **kwargs.
NoParams(class_def) == class_def.catch_all

\* A variant of the filter that keeps every key.
FilterInputsKeepAll(inputs, class_def) == [dict |-> inputs, alias |-> FALSE]

\* A variant of the filter that deletes the keys from the node's own dict.
FilterInputsInPlace(inputs, class_def) ==
    [dict |-> SelectSeq(inputs, LAMBDA e :
                  NoParams(class_def)
                  \/ \E j \in 1..Len(class_def.params) :
                         class_def.params[j] = e.k),
     alias |-> TRUE]

\* The dict comprehension of generate_workflow: a new dict with the keys
\* the FUNCTION accepts.  alias tells whether the result is the node's own
\* inputs dict (it is not: the comprehension builds a new one).
FilterInputs(inputs, class_def) ==
    [dict |-> SelectSeq(inputs, LAMBDA e :
                  NoParams(class_def)
                  \/ \E j \in 1..Len(class_def.params) :
                         class_def.params[j] = e.k),
     alias |-> FALSE]

\* inputs[k] = v on a dict: in place for a key it has, else appended.
SetItem(inputs, k, v) ==
    IF k \in InputKeys(inputs)
    THEN [i \in 1..Len(inputs) |->
             IF inputs[i].k = k THEN [k |-> k, v |-> v] ELSE inputs[i]]
    ELSE Append(inputs, [k |-> k, v |-> v])

\* Whether generate_workflow sets inputs["unique_id"] for this class.
SetsUniqueId(class_def) ==
    \/ "unique_id" \in class_def.hidden
    \/ /\ ~NoParams(class_def)
       /\ \E j \in 1..Len(class_def.params) : class_def.params[j] = "unique_id"

\* The dict update_inputs puts in place of a Reference.
VariableName(var, idx) ==
    [t |-> "dict",
     variable_name |-> [fn |-> "get_value_at_index", var |-> var, idx |-> idx]]

\* executed_variables, a dict from node id to variable name.
HasVar(executed, id) == id.t = "str" /\ id.s \in DOMAIN executed

RECURSIVE UpdateInputs(_, _, _)
\* update_inputs, from the i-th key on: a list whose first item is a key of
\* executed_variables becomes the read of that variable at the list's
\* second item; every other value stays.  [dict, err]
UpdateInputs(inputs, executed, i) ==
    IF i > Len(inputs)
    THEN [dict |-> inputs, err |-> "none"]
    ELSE LET val == inputs[i].v
         IN  IF ~IsList(val)
             THEN UpdateInputs(inputs, executed, i + 1)
             ELSE IF Len(val.items) = 0
             THEN [dict |-> inputs, err |-> "IndexError"]
             ELSE IF ~Hashable(val.items[1])
             THEN [dict |-> inputs, err |-> "TypeError"]
             ELSE IF ~HasVar(executed, val.items[1])
             THEN UpdateInputs(inputs, executed, i + 1)
             ELSE IF Len(val.items) < 2
             THEN [dict |-> inputs, err |-> "IndexError"]
             ELSE UpdateInputs(
                      [inputs EXCEPT ![i].v =
                          VariableName(executed[val.items[1].s], val.items[2])],
                      executed, i + 1)

\* str.replace("\n", "\\n").replace('"', "'") of format_arg
Escape(s) ==
    LET piece(c) == IF c = "\n" THEN <<"\\", "n">>
                    ELSE IF c = "\"" THEN <<"'">> ELSE <<c>>
        F[i \in 0..Len(s)] == IF i = 0 THEN <<>> ELSE F[i - 1] \o piece(s[i])
    IN  F[Len(s)]

\* A variant of format_arg that knows the key "seed" only.
FormatArgSeedOnly(key, value) ==
    IF key = "seed"
    THEN [k |-> key, e |-> "randint"]
    ELSE IF value.t = "str"
    THEN [k |-> key, e |-> "quoted", s |-> Escape(value.s)]
    ELSE IF value.t = "dict"
    THEN [k |-> key, e |-> "expr", x |-> value.variable_name]
    ELSE [k |-> key, e |-> "str", v |-> value]

\* format_arg: the text after "key=".  The seed keys give the expression
\* random.randint(1, 2**64); a str its quoted, escaped text; the dict of
\* update_inputs its variable_name; anything else its str().
FormatArg(key, value) ==
    IF key = "noise_seed" \/ key = "seed"
    THEN [k |-> key, e |-> "randint"]
    ELSE IF value.t = "str"
    THEN [k |-> key, e |-> "quoted", s |-> Escape(value.s)]
    ELSE IF value.t = "dict"
    THEN [k |-> key, e |-> "expr", x |-> value.variable_name]
    ELSE [k |-> key, e |-> "str", v |-> value]

\* create_function_call_code: variable = obj.func(args), indented by one
\* more tab when the node is not special.  node is the id the variable
\* name ends with.  The text is never "variable = await obj.func(args)".
CreateFunctionCallCode(obj_name, func, variable_name, is_special, inputs, node) ==
    [kind |-> "call", var |-> variable_name, obj |-> obj_name, func |-> func,
     args |-> [i \in 1..Len(inputs) |-> FormatArg(inputs[i].k, inputs[i].v)],
     indented |-> ~is_special, node |-> node, awaited |-> FALSE]

\* A variant of the required-input check that finds nothing missing.
MissingRequiredNever(class_def, inputs) == FALSE

\* The required-input check of generate_workflow: INPUT_TYPES() has a
\* "required" key and one of its names is no key of inputs.
MissingRequiredVariable(class_def, inputs) ==
    /\ class_def.has_required
    /\ \E j \in 1..Len(class_def.required) :
          class_def.required[j] \notin InputKeys(inputs)

\* A variant of the routing that puts every call into the loop.
RouteToLoop(g, call, is_special_function) ==
    [g EXCEPT !.code = Append(@, call)]

\* A variant of the routing with the two lists exchanged.
RouteSwapped(g, call, is_special_function) ==
    IF is_special_function
    THEN [g EXCEPT !.code = Append(@, call)]
    ELSE [g EXCEPT !.special_functions_code = Append(@, call)]

\* The routing of generate_workflow: the call goes to
\* special_functions_code when the entry is special, else to code.
Route(g, call, is_special_function) ==
    IF is_special_function
    THEN [g EXCEPT !.special_functions_code = Append(@, call)]
    ELSE [g EXCEPT !.code = Append(@, call)]

\* A variant of the test that never finds the class initialized.
InitializedNever(class_type, initialized_objects) == FALSE

\* class_type in initialized_objects
Initialized(class_type, initialized_objects) ==
    class_type \in DOMAIN initialized_objects

\* A variant of the preview test that finds no class to be the preview.
IsPreviewNever(class_type) == FALSE

\* class_type == "PreviewImage"
IsPreview(class_type) == class_type = PreviewImage

\* A Python int beyond the machine's word: its digits of radix 2^16, the
\* lowest first, without leading zeros.
Radix == 2^16
BigVal(digits) == [t |-> "int", digits |-> digits]
\* 2**e
PowerOfTwo(e) ==
    BigVal([i \in 1..((e \div 16) + 1) |->
               IF i = (e \div 16) + 1 THEN 2^(e % 16) ELSE 0])

\* random.randint(1, 2**64): an int N with 1 <= N <= 2**64, both ends
\* included.  draw numbers the outcomes: the lower end, the upper end, and
\* from 3 on the int draw itself.
Randint(draw) ==
    CASE draw = 1 -> BigVal(<<1>>)
      [] draw = 2 -> PowerOfTwo(64)
      [] OTHER -> BigVal(<<draw>>)

\* The locals of generate_workflow before its loop.
NewLocals(queue_size) ==
    [pc |-> "loop", i |-> 1, queue_size |-> queue_size,
     import_statements |-> {<<"NODE_CLASS_MAPPINGS">>},
     executed_variables |-> <<>>,
     special_functions_code |-> <<>>, code |-> <<>>,
     initialized_objects |-> <<>>, custom_nodes |-> FALSE]

\* dict[k] = v on a dict kept as a function
Bind(f, k, v) == (k :> v) @@ f

\* One pass of the loop of generate_workflow, for load_order[g.i], with
\* draw the outcome of random.randint should the pass call it.
\* [g: the locals after the pass, d: the graph after it, err]
LoopBody(g, d, load_order, base_keys, draw) ==
    LET entry == load_order[g.i]
        node == NodeOf(d, entry.data)
        class_type == node.class_type
        next == [g EXCEPT !.i = @ + 1]
        skip == [g |-> next, d |-> d, err |-> "none"]
        raise(e) == [g |-> g, d |-> d, err |-> e]
    IN  IF class_type \notin DOMAIN NODE_CLASS_MAPPINGS
        THEN raise("KeyError")
        ELSE
        LET class_def == NODE_CLASS_MAPPINGS[class_type]
            missing == MissingRequiredVariable(class_def, node.inputs)
            first == ~Initialized(class_type, g.initialized_objects)
        IN  IF missing THEN skip
            ELSE IF first /\ IsPreview(class_type) THEN skip
            ELSE IF first /\ CleanRaises(class_type) THEN raise("IndexError")
            ELSE
            LET class_code == GetClassInfo(class_type, base_keys)
                g1 == IF first
                      THEN [next EXCEPT
                             !.initialized_objects =
                                 Bind(@, class_type, class_code.var),
                             !.import_statements =
                                 IF class_type \in base_keys
                                 THEN @ \cup {class_type} ELSE @,
                             !.custom_nodes =
                                 IF class_type \notin base_keys THEN TRUE ELSE @,
                             !.special_functions_code = Append(@, class_code)]
                      ELSE next
                filtered == FilterInputs(node.inputs, class_def)
                hidden == IF SetsUniqueId(class_def)
                          THEN SetItem(filtered.dict, "unique_id", Randint(draw))
                          ELSE filtered.dict
                variable == CleanVariableName(class_type) \o <<"_">> \o entry.id
                executed == Bind(g1.executed_variables, entry.id, variable)
                updated == UpdateInputs(hidden, executed, 1)
                \* the node's own dict changes with it when inputs is that dict
                d1 == IF filtered.alias
                      THEN [j \in 1..Len(d) |->
                              IF d[j].key = entry.data
                              THEN [d[j] EXCEPT !.inputs = updated.dict]
                              ELSE d[j]]
                      ELSE d
                call == CreateFunctionCallCode(
                            g1.initialized_objects[class_type],
                            class_def.FUNCTION, variable, entry.hoisted,
                            updated.dict, entry.id)
                g2 == [g1 EXCEPT !.executed_variables = executed]
            IN  IF updated.err # "none"
                THEN [g |-> g2, d |-> d1, err |-> updated.err]
                ELSE [g |-> Route(g2, call, entry.hoisted),
                      d |-> d1, err |-> "none"]

\* Whether the pass for load_order[g.i] reaches a random.randint call.
Draws(g, d, load_order) ==
    LET class_type == NodeOf(d, load_order[g.i].data).class_type
    IN  /\ class_type \in DOMAIN NODE_CLASS_MAPPINGS
        /\ SetsUniqueId(NODE_CLASS_MAPPINGS[class_type])

\* The names that may be imported from nodes, in a fixed order.
ImportNames == <<<<"NODE_CLASS_MAPPINGS">>, Loader, Encoder, Sampler,
                 PreviewImage, CustomId>>

\* A variant of the iteration order that changes with every call.
ImportOrderPerCall(import_statements) ==
    LET n == Len(ImportNames)
        turned == [i \in 1..n |->
                      ImportNames[((i + hashseed + Len(texts) - 1) % n) + 1]]
    IN  SelectSeq(turned, LAMBDA name : name \in import_statements)

\* The order in which a set of import names is iterated: the order of the
\* names' hashes, which the process's hash seed fixes.
ImportOrder(import_statements) ==
    LET n == Len(ImportNames)
        turned == [i \in 1..n |-> ImportNames[((i + hashseed - 1) % n) + 1]]
    IN  SelectSeq(turned, LAMBDA name : name \in import_statements)

\* black.format_str: the text, or InvalidInput for text that is no Python.
\* A for statement with no body is none.
FormatStr(text) ==
    IF text.loop = <<>>
    THEN [err |-> "InvalidInput"]
    ELSE [err |-> "none", text |-> text]

\* A variant of assemble_python_code that writes the statements of the
\* loop out queue_size times.
AssemblePythonCodeUnrolled(import_statements, special_functions_code, code, queue_size, custom_nodes) ==
    LET F[i \in 0..queue_size] == IF i = 0 THEN <<>> ELSE F[i - 1] \o code
    IN  FormatStr([imports |-> ImportOrder(import_statements),
                   import_custom_nodes |-> custom_nodes,
                   setup |-> special_functions_code,
                   queue_size |-> 1,
                   loop |-> F[queue_size]])

\* assemble_python_code: the imports, the setup block and the loop over
\* range(queue_size), formatted.
AssemblePythonCode(import_statements, special_functions_code, code, queue_size, custom_nodes) ==
    FormatStr([imports |-> ImportOrder(import_statements),
               import_custom_nodes |-> custom_nodes,
               setup |-> special_functions_code,
               queue_size |-> queue_size,
               loop |-> code])

(***************************************************************************)
(* The workflow graphs of the model.                                       *)
(***************************************************************************)
\* The dict with the key "input" and a second key, either of them absent.
Absent == [t |-> "absent"]
InputsOf(inp, key, val) ==
    (IF inp = Absent THEN <<>> ELSE <<[k |-> "input", v |-> inp]>>)
 \o (IF val = Absent THEN <<>> ELSE <<[k |-> key, v |-> val]>>)

\* References to the nodes of an n-node graph.
RefsInto(n) == {Ref(NodeId(j), 0) : j \in 1..n}

\* Nodes for the load order: every class, registered or not; first a
\* literal, a Reference or a dangling Reference, and after a Reference
\* possibly a second Reference to another node.
OrderNodes(n) ==
    {[class_type |-> x[1], inputs |-> InputsOf(x[2], "seed", x[3])] :
        x \in {y \in {Loader, Encoder, Sampler, Unregistered}
                     \X ({StrVal(<<"m">>), Ref(DanglingId, 0)} \cup RefsInto(n))
                     \X ({Absent} \cup RefsInto(n)) :
                 y[3] # Absent => (IsList(y[2]) /\ y[2] # y[3])}}

\* Nodes for the generator: registered classes with a string (holding a
\* double quote) or a Reference as "input", with or without their seed.
GenNodes(n) ==
    LET text == StrVal(<<"a", "\"">>)
        node(ct, inp, key, val) ==
            [class_type |-> ct, inputs |-> InputsOf(inp, key, val)]
    IN  {node(ct, inp, "seed", Absent) :
            ct \in {Loader, PreviewImage}, inp \in {text} \cup RefsInto(n)}
   \cup {node(Loader, Absent, "seed", Absent)}
   \cup {node(CustomId, text, "seed", Absent)}
   \cup {node(Encoder, inp, "noise_seed", Absent) :
            inp \in {text} \cup RefsInto(n)}
   \cup {node(Encoder, text, "noise_seed", IntVal(7))}
   \cup {node(Sampler, inp, "seed", IntVal(7)) :
            inp \in {text} \cup RefsInto(n)}
   \cup {node(Sampler, text, "seed", val) :
            val \in {Absent, Ref(NodeId(1), 0)}}

\* The graph whose i-th node is f[i], with the ids "1".."n".
GraphOf(f, n) ==
    [i \in 1..n |-> [key |-> NodeId(i), class_type |-> f[i].class_type,
                     inputs |-> f[i].inputs]]

\* The baseline, the hash seed and the queue size of a run.  With
\* needs_init_custom_nodes=False the baseline is empty.
Configs ==
    {[base |-> {}, hashseed |-> 0, queue_size |-> 1],
     [base |-> BuiltinTypes, hashseed |-> 1, queue_size |-> 3]}

(***************************************************************************)
(* The operations.                                                         *)
(***************************************************************************)
NoGen == [pc |-> "idle"]

\* LoadOrderDeterminer(data, node_class_mappings): a new instance.
NewDeterminer ==
    /\ texts = <<>> /\ gen.pc = "idle"
    /\ calls > 0
    /\ Len(returns) < MaxCalls
    /\ det' = NewDet
    /\ calls' = 0
    /\ UNCHANGED <<data, base, hashseed, self_queue_size, returns, gen, texts>>
    /\ UNCHANGED <<procvars, cleanvars>>

\* load_order_determiner.determine_load_order(): the call returns
\* self.load_order, or raises.  No caller catches the exception, so an
\* instance whose call raised is not called again.
DetermineLoadOrder ==
    /\ texts = <<>> /\ gen.pc = "idle"
    /\ Len(returns) < MaxCalls
    /\ det.err = "none"
    /\ det' = DetermineLoadOrderFrom(det, data)
    /\ returns' = Append(returns,
           [err |-> det'.err,
            plan |-> IF det'.err = "none" THEN det'.load_order ELSE <<>>])
    /\ calls' = calls + 1
    /\ UNCHANGED <<data, base, hashseed, self_queue_size, gen, texts>>
    /\ UNCHANGED <<procvars, cleanvars>>

\* code_generator.generate_workflow(load_order, queue_size), up to its
\* loop.  execute calls it with what the determiner returned.
GenerateWorkflow ==
    /\ gen.pc = "idle"
    /\ Len(returns) = 1 /\ returns[1].err = "none"
    /\ Len(texts) < MaxCalls
    /\ gen' = NewLocals(self_queue_size)
    /\ UNCHANGED <<data, base, hashseed, self_queue_size, det, calls, returns, texts>>
    /\ UNCHANGED <<procvars, cleanvars>>

\* One pass of the loop of generate_workflow.  An exception ends the call.
LoopStep ==
    /\ gen.pc = "loop"
    /\ gen.i <= Len(det.load_order)
    /\ \E draw \in IF Draws(gen, data, det.load_order) THEN 1..MaxDraw ELSE {1} :
          LET pass == LoopBody(gen, data, det.load_order, base, draw)
          IN  /\ data' = pass.d
              /\ IF pass.err = "none"
                 THEN gen' = pass.g /\ texts' = texts
                 ELSE gen' = NoGen /\ texts' = Append(texts, [err |-> pass.err])
    /\ UNCHANGED <<base, hashseed, self_queue_size, det, calls, returns>>
    /\ UNCHANGED <<procvars, cleanvars>>

\* The end of generate_workflow: assemble_python_code and the return.
Assemble ==
    /\ gen.pc = "loop"
    /\ gen.i > Len(det.load_order)
    /\ texts' = Append(texts,
           AssemblePythonCode(gen.import_statements,
               gen.special_functions_code, gen.code, gen.queue_size,
               gen.custom_nodes))
    /\ gen' = NoGen
    /\ UNCHANGED <<data, base, hashseed, self_queue_size, det, calls, returns>>
    /\ UNCHANGED <<procvars, cleanvars>>

\* Before step 3 of execute: no determiner has been called, no generator.
InitCalls ==
    /\ loaded = TRUE /\ runs = <<>> /\ heap = <<>>
    /\ clean_arg = <<>> /\ clean_names = <<>>
    /\ det = NewDet
    /\ calls = 0
    /\ returns = <<>>
    /\ gen = NoGen
    /\ texts = <<>>

\* The load order of every graph, on one instance or on two.
InitOrder ==
    /\ \E n \in 1..MaxNodes :
          \E f \in [1..n -> OrderNodes(n)] : data = GraphOf(f, n)
    /\ InitCalls
    /\ base = {} /\ hashseed = 0 /\ self_queue_size = 1

NextOrder == NewDeterminer \/ DetermineLoadOrder

SpecOrder == InitOrder /\ [][NextOrder]_vars

\* The load order of the graphs of three nodes of registered classes
\* whose References all name nodes of the graph.
InitHoist ==
    /\ \E f \in [1..3 -> {x \in OrderNodes(3) :
                              /\ x.class_type # Unregistered
                              /\ \A i \in 1..Len(x.inputs) :
                                    x.inputs[i].v # Ref(DanglingId, 0)}] :
          data = GraphOf(f, 3)
    /\ InitCalls
    /\ base = {} /\ hashseed = 0 /\ self_queue_size = 1

SpecHoist == InitHoist /\ [][NextOrder]_vars

\* Step 3 of execute: a new LoadOrderDeterminer, called once.
Resolve == returns = <<>> /\ DetermineLoadOrder

\* Steps 3 and 4 of execute, and further calls of generate_workflow.
Init ==
    /\ \E n \in 1..MaxNodes :
          \E f \in [1..n -> GenNodes(n)] : data = GraphOf(f, n)
    /\ InitCalls
    /\ \E c \in Configs :
          base = c.base /\ hashseed = c.hashseed
          /\ self_queue_size = c.queue_size

Next ==
    \/ Resolve
    \/ GenerateWorkflow
    \/ LoopStep
    \/ Assemble

Spec == Init /\ [][Next]_vars

\* Nodes whose inputs may hold a key no FUNCTION declares: an encoder and
\* a class whose FUNCTION takes **kwargs, their "input" a string or a read
\* of the first node; and a node of the class with the undeclared hidden
\* unique_id.
ParamNodes(n) ==
    {[class_type |-> x[1], inputs |-> InputsOf(x[2], "extra", x[3])] :
        x \in {Encoder, AnyArgs}
              \X {StrVal(<<"m">>), Ref(NodeId(1), 0)}
              \X {Absent, IntVal(7)}}
    \cup {[class_type |-> HiddenId,
           inputs |-> InputsOf(Ref(NodeId(1), 0), "extra", Absent)]}

InitParams ==
    /\ \E n \in 1..MaxNodes :
          \E f \in [1..n -> ParamNodes(n)] : data = GraphOf(f, n)
    /\ InitCalls
    /\ base = {} /\ hashseed = 0 /\ self_queue_size = 1

SpecParams == InitParams /\ [][Next]_vars

\* Nodes whose "input" may be a list literal: a list of numbers, or a list
\* of strings the first of which reads like a node id.
ListNodes ==
    {[class_type |-> x[1],
      inputs |-> InputsOf(x[2], "seed",
                          IF x[1] = Sampler THEN IntVal(7) ELSE Absent)] :
        x \in {Loader, Sampler}
              \X {StrVal(<<"m">>), Ref(NodeId(1), 0),
                  ListVal(<<IntVal(1), IntVal(2)>>),
                  ListVal(<<StrVal(NodeId(1)), StrVal(<<"x">>)>>)}}

InitLists ==
    /\ \E n \in 1..MaxNodes :
          \E f \in [1..n -> ListNodes] : data = GraphOf(f, n)
    /\ InitCalls
    /\ base = {} /\ hashseed = 0 /\ self_queue_size = 1

SpecLists == InitLists /\ [][Next]_vars

\* The keys of a workflow are any JSON strings: here "1", "2" and "1_2".
NameIds == {<<"1">>, <<"2">>, <<"1", "_", "2">>}

\* Workflows of samplers of the two classes under such keys, every
\* required input present.
InitNames ==
    /\ \E n \in 1..MaxNodes :
          \E ids \in [1..n -> NameIds] :
             \E types \in [1..n -> {Sampler, SamplerOne}] :
                /\ \A i, j \in 1..n : ids[i] = ids[j] => i = j
                /\ data = [i \in 1..n |->
                              [key |-> ids[i], class_type |-> types[i],
                               inputs |-> InputsOf(StrVal(<<"m">>), "seed",
                                                   IntVal(7))]]
    /\ InitCalls
    /\ base = {} /\ hashseed = 0 /\ self_queue_size = 1

SpecNames == InitNames /\ [][Next]_vars

(***************************************************************************)
(* A process that constructs ComfyUItoPython several times: run() of the   *)
(* command line, save_as_script of the server.  A construction checks its  *)
(* arguments, copies the registry into the baseline and calls execute.     *)
(***************************************************************************)
\* The classes init_custom_nodes adds to NODE_CLASS_MAPPINGS.
CustomTypes == {CustomId}
\* The keys of the process's NODE_CLASS_MAPPINGS.
Registered(is_loaded) ==
    IF is_loaded THEN DOMAIN NODE_CLASS_MAPPINGS
    ELSE DOMAIN NODE_CLASS_MAPPINGS \ CustomTypes

\* The workflow of a loader read by a node of class ct.
LoaderThen(ct) ==
    <<[key |-> NodeId(1), class_type |-> Loader,
       inputs |-> InputsOf(StrVal(<<"m">>), "seed", Absent)],
      [key |-> NodeId(2), class_type |-> ct,
       inputs |-> InputsOf(Ref(NodeId(1), 0), "seed",
                           IF ct = Sampler THEN IntVal(7) ELSE Absent)]>>

\* The arguments of a construction.  workflow and input_file are the
\* graph the JSON text or the file holds, <<>> for the empty string;
\* output_file is whether one is given.
Args(workflow, input_file, output_file, needs_init) ==
    [workflow |-> workflow, input_file |-> input_file,
     output_file |-> output_file, queue_size |-> 1,
     needs_init_custom_nodes |-> needs_init]
\* save_as_script passes workflow, run() passes input_file and
\* needs_init_custom_nodes=True; three calls miss or double an argument.
ArgsMenu ==
    {Args(LoaderThen(Sampler), <<>>, TRUE, FALSE),
     Args(<<>>, LoaderThen(CustomId), TRUE, TRUE),
     Args(LoaderThen(Sampler), LoaderThen(Sampler), TRUE, FALSE),
     Args(<<>>, <<>>, TRUE, FALSE),
     Args(LoaderThen(Sampler), <<>>, FALSE, FALSE)}

\* A variant of the argument checks of __init__ without the last one.
ArgsErrorNoOutput(args) ==
    IF args.input_file # <<>> /\ args.workflow # <<>> THEN "ValueError"
    ELSE IF args.input_file = <<>> /\ args.workflow = <<>> THEN "ValueError"
    ELSE "none"

\* The argument checks of __init__.
ArgsError(args) ==
    IF args.input_file # <<>> /\ args.workflow # <<>> THEN "ValueError"
    ELSE IF args.input_file = <<>> /\ args.workflow = <<>> THEN "ValueError"
    ELSE IF ~args.output_file THEN "ValueError"
    ELSE "none"

\* __init__ up to the call of execute: the checks, the attributes and the
\* deep copy of the registry as it is then.  seen is the registry copied.
NewRun(args, is_loaded) ==
    [args |-> args,
     pc |-> IF ArgsError(args) = "none" THEN "execute" ELSE "raised",
     err |-> ArgsError(args),
     seen |-> is_loaded,
     base |-> IF ArgsError(args) = "none" THEN Registered(is_loaded) ELSE {},
     data |-> <<>>, reads |-> 0, det |-> 0, load_order |-> <<>>,
     gen |-> NoGen, out |-> <<>>]

\* A variant with one LoadOrderDeterminer for the whole process.
SharedDeterminerId(h) == 1

\* LoadOrderDeterminer(...) makes a new object.
NewDeterminerId(h) == Len(h) + 1

\* The heap with the object id set to st.
Put(h, id, st) == IF id > Len(h) THEN Append(h, st) ELSE [h EXCEPT ![id] = st]

\* A run ends with an exception.
Raised(run, e) == [run EXCEPT !.pc = "raised", !.err = e]

Construct ==
    /\ Len(runs) < MaxRuns
    /\ \E args \in ArgsMenu : runs' = Append(runs, NewRun(args, loaded))
    /\ UNCHANGED <<loaded, heap>>
    /\ UNCHANGED <<solovars, cleanvars>>

\* Steps 1 and 2 of execute and the start of step 3:
\* import_custom_nodes() or an empty baseline, the workflow read from the
\* file or parsed from the text, and a new LoadOrderDeterminer.
ExecuteRead ==
    \E r \in 1..Len(runs) :
        /\ runs[r].pc = "execute"
        /\ loaded' = (loaded \/ runs[r].args.needs_init_custom_nodes)
        /\ runs' = [runs EXCEPT ![r] =
              [@ EXCEPT !.pc = "first",
                        !.det = NewDeterminerId(heap),
                        !.base = IF runs[r].args.needs_init_custom_nodes
                                 THEN @ ELSE {},
                        !.data = IF runs[r].args.input_file # <<>>
                                 THEN runs[r].args.input_file
                                 ELSE runs[r].args.workflow,
                        !.reads = @ + 1]]
        /\ heap' = Put(heap, NewDeterminerId(heap), NewDet)
        /\ UNCHANGED <<solovars, cleanvars>>

\* determine_load_order up to the end of _load_special_functions_first.
\* A class the process has not registered raises KeyError there.
ExecuteFirst ==
    \E r \in 1..Len(runs) :
        /\ runs[r].pc = "first"
        /\ LET d == runs[r].data
               st == IF \E i \in 1..Len(d) : d[i].class_type \notin Registered(loaded)
                     THEN [heap[runs[r].det] EXCEPT !.err = "KeyError"]
                     ELSE LoadSpecialFunctionsFirst(heap[runs[r].det], d, 1)
           IN  /\ heap' = Put(heap, runs[r].det, st)
               /\ runs' = [runs EXCEPT ![r] =
                      IF st.err # "none" THEN Raised(@, st.err)
                      ELSE [@ EXCEPT !.pc = "second"]]
        /\ UNCHANGED loaded
        /\ UNCHANGED <<solovars, cleanvars>>

\* The rest of determine_load_order and its return, and generate_workflow
\* up to its loop.
ExecuteSecond ==
    \E r \in 1..Len(runs) :
        /\ runs[r].pc = "second"
        /\ LET st == DfsRemaining(
                         [heap[runs[r].det] EXCEPT !.is_special_function = FALSE],
                         runs[r].data, 1)
           IN  /\ heap' = Put(heap, runs[r].det, st)
               /\ runs' = [runs EXCEPT ![r] =
                      IF st.err # "none" THEN Raised(@, st.err)
                      ELSE [@ EXCEPT !.pc = "loop",
                                     !.load_order = st.load_order,
                                     !.gen = NewLocals(runs[r].args.queue_size)]]
        /\ UNCHANGED loaded
        /\ UNCHANGED <<solovars, cleanvars>>

\* One pass of the loop of generate_workflow.
ExecuteLoop ==
    \E r \in 1..Len(runs) :
        /\ runs[r].pc = "loop"
        /\ runs[r].gen.i <= Len(runs[r].load_order)
        /\ \E draw \in IF Draws(runs[r].gen, runs[r].data, runs[r].load_order)
                        THEN 1..MaxDraw ELSE {1} :
              LET pass == LoopBody(runs[r].gen, runs[r].data,
                                   runs[r].load_order, runs[r].base, draw)
              IN  runs' = [runs EXCEPT ![r] =
                      IF pass.err # "none"
                      THEN Raised([@ EXCEPT !.data = pass.d], pass.err)
                      ELSE [@ EXCEPT !.data = pass.d, !.gen = pass.g]]
        /\ UNCHANGED <<loaded, heap>>
        /\ UNCHANGED <<solovars, cleanvars>>

\* The end of generate_workflow and step 5 of execute: the text is
\* written to the output file.
ExecuteWrite ==
    \E r \in 1..Len(runs) :
        /\ runs[r].pc = "loop"
        /\ runs[r].gen.i > Len(runs[r].load_order)
        /\ LET g == runs[r].gen
               t == AssemblePythonCode(g.import_statements,
                        g.special_functions_code, g.code, g.queue_size,
                        g.custom_nodes)
           IN  runs' = [runs EXCEPT ![r] =
                   IF t.err # "none" THEN Raised(@, t.err)
                   ELSE [@ EXCEPT !.pc = "done", !.out = Append(@, t.text)]]
        /\ UNCHANGED <<loaded, heap>>
        /\ UNCHANGED <<solovars, cleanvars>>

\* A process with or without the custom classes registered yet.
InitRuns ==
    /\ loaded \in BOOLEAN /\ runs = <<>> /\ heap = <<>>
    /\ clean_arg = <<>> /\ clean_names = <<>>
    /\ data = <<>> /\ base = {} /\ hashseed = 0 /\ self_queue_size = 1
    /\ det = NewDet /\ calls = 0 /\ returns = <<>>
    /\ gen = NoGen /\ texts = <<>>

NextRuns ==
    \/ Construct
    \/ ExecuteRead
    \/ ExecuteFirst
    \/ ExecuteSecond
    \/ ExecuteLoop
    \/ ExecuteWrite

SpecRuns == InitRuns /\ [][NextRuns]_vars

(***************************************************************************)
(* clean_variable_name on its own, a static method: called on a class_type *)
(* of at most MaxLen characters, and then on the name it returned.         *)
(***************************************************************************)
\* Characters of every kind the method tells apart: a capital, a small
\* letter, a digit, the two separators, the underscore and another one.
TypeChars == {"K", "s", "1", "-", " ", "_", "!"}

\* The outcome of clean_variable_name(s): the name, or the IndexError of
\* clean_name[0] on an empty string.
CleanOutcome(s) ==
    IF CleanRaises(s)
    THEN [err |-> "IndexError"]
    ELSE [err |-> "none", name |-> CleanVariableName(s)]

CleanCall ==
    /\ clean_names = <<>>
    /\ clean_names' = <<CleanOutcome(clean_arg)>>
    /\ UNCHANGED <<clean_arg, solovars, procvars>>

CleanAgain ==
    /\ Len(clean_names) = 1 /\ clean_names[1].err = "none"
    /\ clean_names' = Append(clean_names, CleanOutcome(clean_names[1].name))
    /\ UNCHANGED <<clean_arg, solovars, procvars>>

InitClean ==
    /\ clean_arg \in UNION {[1..n -> TypeChars] : n \in 0..MaxLen}
    /\ clean_names = <<>>
    /\ loaded = TRUE /\ runs = <<>> /\ heap = <<>>
    /\ data = <<>> /\ base = {} /\ hashseed = 0 /\ self_queue_size = 1
    /\ det = NewDet /\ calls = 0 /\ returns = <<>>
    /\ gen = NoGen /\ texts = <<>>

NextClean == CleanCall \/ CleanAgain

SpecClean == InitClean /\ [][NextClean]_vars

(***************************************************************************)
(* The graph as the claims read it.                                        *)
(***************************************************************************)
\* A Reference: a list [source_node_id, output_index].
IsReference(v) ==
    IsList(v) /\ Len(v.items) = 2 /\ v.items[1].t = "str" /\ v.items[2].t = "int"

\* The ids the References of a node name.
Sources(node) ==
    {node.inputs[i].v.items[1].s :
        i \in {j \in 1..Len(node.inputs) : IsReference(node.inputs[j].v)}}

\* The nodes reached from the set S along at most n Reference edges.
RECURSIVE Reached(_, _, _)
Reached(d, S, n) ==
    IF n = 0
    THEN S
    ELSE Reached(d,
             S \cup UNION {Sources(NodeOf(d, k)) \cap Keys(d) : k \in S \cap Keys(d)},
             n - 1)

\* A node lies on a cycle of Reference edges (a self-reference is one).
OnCycle(d, key) == key \in Reached(d, Sources(NodeOf(d, key)), Len(d))
HasCycle(d) == \E key \in Keys(d) : OnCycle(d, key)
HasDangling(d) == \E i \in 1..Len(d) : ~(Sources(d[i]) \subseteq Keys(d))
AllRegistered(d) ==
    \A i \in 1..Len(d) : d[i].class_type \in DOMAIN NODE_CLASS_MAPPINGS

\* Every Reference of every entry names a node that an earlier entry holds.
TopologicallySound(plan, d) ==
    \A p \in 1..Len(plan) :
        \A src \in Sources(NodeOf(d, plan[p].data)) :
            \E q \in 1..(p - 1) : plan[q].id = src

\* The call statements generated so far by the running call, and those of
\* the texts returned.
CallsOf(stmts) == {stmts[i] : i \in {j \in 1..Len(stmts) : stmts[j].kind = "call"}}
ReturnedTexts == {texts[i].text : i \in {j \in 1..Len(texts) : texts[j].err = "none"}}
EmittedCalls ==
    (IF gen.pc = "loop"
     THEN CallsOf(gen.special_functions_code) \cup CallsOf(gen.code)
     ELSE {})
    \cup UNION {CallsOf(t.setup) \cup CallsOf(t.loop) : t \in ReturnedTexts}

(***************************************************************************)
(* C1: on an acyclic graph whose classes are all registered and whose      *)
(* References all name nodes of the graph, determine_load_order returns,   *)
(* and in the plan every Reference's source has its entry strictly before  *)
(* the entry that holds the Reference.                                     *)
(***************************************************************************)
C1_TopologicalSoundness ==
    \A r \in 1..Len(returns) :
        (~HasCycle(data) /\ AllRegistered(data) /\ ~HasDangling(data))
        => /\ returns[r].err = "none"
           /\ TopologicallySound(returns[r].plan, data)

\* A plan returned for an acyclic graph whose first node reads the second.
C1_Witness ==
    /\ Len(returns) > 0 /\ returns[1].err = "none"
    /\ ~HasCycle(data) /\ Len(data) = 2
    /\ Sources(data[1]) = {data[2].key}
    /\ returns[1].plan[1].id = data[2].key

(***************************************************************************)
(* C2: on a graph whose Reference edges hold a cycle, a self-reference     *)
(* included, determine_load_order raises and returns no plan.              *)
(***************************************************************************)
C2_CycleRaises ==
    \A r \in 1..Len(returns) : HasCycle(data) => returns[r].err # "none"

(***************************************************************************)
(* C3: when some node's class_type is no key of the registry,              *)
(* determine_load_order raises, wherever the node stands in the graph and  *)
(* whatever its inputs.                                                    *)
(***************************************************************************)
C3_UnknownTypeRaises ==
    \A r \in 1..Len(returns) : ~AllRegistered(data) => returns[r].err # "none"

\* The call raised for a graph whose only unregistered node is the last,
\* which an earlier loader reads, so that _dfs has visited it already.
C3_Witness ==
    /\ Len(returns) > 0 /\ returns[1].err = "KeyError"
    /\ Len(data) = 2
    /\ data[1].class_type = Loader /\ Sources(data[1]) = {data[2].key}
    /\ data[2].class_type = Unregistered /\ Sources(data[2]) = {}

(***************************************************************************)
(* C4: when some input is a Reference to an id that is no key of the       *)
(* graph, determine_load_order raises and returns no plan.                 *)
(***************************************************************************)
C4_DanglingRaises ==
    \A r \in 1..Len(returns) : HasDangling(data) => returns[r].err # "none"

\* The call raised for a graph of registered classes whose last node holds
\* the only dangling Reference.
C4_Witness ==
    /\ Len(returns) > 0 /\ returns[1].err = "KeyError"
    /\ AllRegistered(data) /\ Len(data) = 2
    /\ Sources(data[1]) = {} /\ Sources(data[2]) = {DanglingId}

(***************************************************************************)
(* C5: any two calls of determine_load_order on the same graph, on one     *)
(* instance or on two, that return a plan return the same plan: the same   *)
(* ids in the same order with the same hoisted flags.                      *)
(***************************************************************************)
C5_SamePlan ==
    \A i, j \in 1..Len(returns) :
        (returns[i].err = "none" /\ returns[j].err = "none")
        => returns[i].plan = returns[j].plan

\* Two calls on one instance returned a plan of a hoisted and a
\* not hoisted entry.
C5_Witness ==
    /\ Len(returns) = 2 /\ calls = 2
    /\ returns[1].err = "none" /\ returns[2].err = "none"
    /\ Len(returns[2].plan) = 2
    /\ returns[2].plan[1].hoisted /\ ~returns[2].plan[2].hoisted

MaskUniqueId(stmts) ==
    [i \in 1..Len(stmts) |->
        IF stmts[i].kind = "call"
           /\ SetsUniqueId(NODE_CLASS_MAPPINGS[NodeOf(data, stmts[i].node).class_type])
        THEN [stmts[i] EXCEPT !.args =
                 [a \in 1..Len(@) |->
                     IF @[a].k = "unique_id"
                     THEN [k |-> "unique_id", e |-> "drawn"] ELSE @[a]]]
        ELSE stmts[i]]
Masked(t) ==
    IF t.err = "none"
    THEN [t EXCEPT !.text.setup = MaskUniqueId(@), !.text.loop = MaskUniqueId(@)]
    ELSE t

C7_PlanAndGraphUnchanged ==
    [][gen.pc = "loop" => (data' = data /\ det'.load_order = det.load_order)]_vars

\* A returned text reads a variable where the graph still holds the
\* Reference, and passes a unique_id the graph does not hold.
C7_Witness ==
    \E t \in ReturnedTexts : \E c \in CallsOf(t.setup) \cup CallsOf(t.loop) :
        /\ \E a \in 1..Len(c.args) :
              /\ c.args[a].e = "expr"
              /\ IsReference(InputVal(NodeOf(data, c.node).inputs, c.args[a].k))
        /\ \E c2 \in CallsOf(t.setup) \cup CallsOf(t.loop) :
              /\ \E a \in 1..Len(c2.args) : c2.args[a].k = "unique_id"
              /\ "unique_id" \notin InputKeys(NodeOf(data, c2.node).inputs)

(***************************************************************************)
(* C8: the pass of the loop for an entry that lacks a required input only  *)
(* moves on to the next entry: it adds no statement, no instantiation, no  *)
(* import and no variable, and raises nothing.                             *)
(***************************************************************************)
LacksRequired(node) ==
    /\ NODE_CLASS_MAPPINGS[node.class_type].has_required
    /\ \E j \in 1..Len(NODE_CLASS_MAPPINGS[node.class_type].required) :
          NODE_CLASS_MAPPINGS[node.class_type].required[j]
              \notin InputKeys(node.inputs)

C8_MissingRequiredSkipped ==
    [][(/\ gen.pc = "loop"
        /\ gen.i <= Len(det.load_order)
        /\ LacksRequired(NodeOf(data, det.load_order[gen.i].data)))
       => (gen' = [gen EXCEPT !.i = @ + 1] /\ texts' = texts)]_vars

\* A call statement was generated for the entry after a skipped one.
C8_Witness ==
    /\ gen.pc = "loop" /\ gen.i = 3
    /\ LacksRequired(NodeOf(data, det.load_order[1].data))
    /\ \E c \in EmittedCalls : c.node = det.load_order[2].id

(***************************************************************************)
(* C9: in every call statement, an input that is a Reference (src, idx) is *)
(* the text get_value_at_index(<variable of src>, idx).                    *)
(***************************************************************************)
C9_ReferencesRead ==
    \A c \in EmittedCalls : \A a \in 1..Len(c.args) :
        LET inputs == NodeOf(data, c.node).inputs
            k == c.args[a].k
        IN  (k \in InputKeys(inputs) /\ IsReference(InputVal(inputs, k)))
            => /\ c.args[a].e = "expr"
               /\ c.args[a].x.fn = "get_value_at_index"
               /\ c.args[a].x.idx = InputVal(inputs, k).items[2]

(***************************************************************************)
(* C10: in every call statement, the argument named seed or noise_seed is  *)
(* the expression random.randint(1, 2**64), never the stored value.        *)
(***************************************************************************)
C10_SeedRandomized ==
    \A c \in EmittedCalls : \A a \in 1..Len(c.args) :
        c.args[a].k \in {"seed", "noise_seed"} => c.args[a].e = "randint"

\* Returned texts pass a seed and a noise_seed whose stored value is 7.
C10_Witness ==
    \A key \in {"seed", "noise_seed"} :
        \E t \in ReturnedTexts : \E c \in CallsOf(t.setup) \cup CallsOf(t.loop) :
            /\ \E a \in 1..Len(c.args) : c.args[a].k = key
            /\ key \in InputKeys(NodeOf(data, c.node).inputs)
            /\ InputVal(NodeOf(data, c.node).inputs, key) = IntVal(7)

(***************************************************************************)
(* C11: any two distinct entries for which generate_workflow binds a       *)
(* result variable get distinct variable names.                            *)
(***************************************************************************)
C11_DistinctVariableNames ==
    gen.pc = "loop" =>
        \A a, b \in DOMAIN gen.executed_variables :
            a # b => gen.executed_variables[a] # gen.executed_variables[b]

(***************************************************************************)
(* C12: the returned program has one loop, over range(queue_size), and     *)
(* each statement of the loop stands in it once, whatever queue_size is:   *)
(* one call for each entry that is emitted and not hoisted, none of them   *)
(* in the setup block.                                                     *)
(***************************************************************************)
C12_OneLoopOverRange ==
    \A t \in ReturnedTexts :
        /\ t.queue_size = self_queue_size
        /\ \A i, j \in 1..Len(t.loop) : t.loop[i].node = t.loop[j].node => i = j
        /\ \A i \in 1..Len(t.loop) :
              /\ t.loop[i].kind = "call"
              /\ \A j \in 1..Len(t.setup) :
                    t.setup[j].kind = "call" => t.setup[j].node # t.loop[i].node

\* A returned program repeats its loop three times.
C12_Witness ==
    \E t \in ReturnedTexts : t.queue_size = 3 /\ Len(t.loop) > 0

(***************************************************************************)
(* C13, the placement: a call statement stands in the setup block when its *)
(* entry is hoisted, and in the loop when it is not.                       *)
(***************************************************************************)
HoistedIds == {det.load_order[p].id :
                  p \in {q \in 1..Len(det.load_order) : det.load_order[q].hoisted}}
PlacedByFlag ==
    \A t \in ReturnedTexts :
        /\ \A c \in CallsOf(t.setup) : c.node \in HoistedIds
        /\ \A c \in CallsOf(t.loop) : c.node \notin HoistedIds

\* A loader with literal inputs only, read by the second node, which is
\* no loader.
LoaderFeedsSecond ==
    /\ Len(data) = 2
    /\ NODE_CLASS_MAPPINGS[data[1].class_type].CATEGORY = "loaders"
    /\ \A i \in 1..Len(data[1].inputs) : ~IsList(data[1].inputs[i].v)
    /\ NODE_CLASS_MAPPINGS[data[2].class_type].CATEGORY # "loaders"
    /\ Sources(data[2]) = {data[1].key}

\* The plan is [(1, hoisted), (2, not hoisted)]; the call of node 1, if
\* any, is in the setup block and that of node 2 in the loop.
LoaderThenLoop ==
    /\ \A r \in 1..Len(returns) :
          returns[r] = [err |-> "none",
                        plan |-> <<Entry(data[1].key, TRUE),
                                   Entry(data[2].key, FALSE)>>]
    /\ \A t \in ReturnedTexts :
          /\ \A c \in CallsOf(t.setup) : c.node = data[1].key
          /\ \A c \in CallsOf(t.loop) : c.node = data[2].key

InitsOf(text) ==
    {text.setup[i] : i \in {j \in 1..Len(text.setup) : text.setup[j].kind = "init"}}

\* The workflow a construction converts.
WorkflowOf(args) ==
    IF args.input_file # <<>> THEN args.input_file ELSE args.workflow

\* What one construction gives when it is the only one of a process whose
\* registry is Registered(is_loaded) throughout, with ds the numbers drawn
\* by the passes of the loop: the error, the load order, the text written.
RECURSIVE AloneLoop(_, _, _, _, _)
AloneLoop(g, d, lo, b, ds) ==
    IF g.i > Len(lo)
    THEN [g |-> g, err |-> "none"]
    ELSE LET pass == LoopBody(g, d, lo, b, ds[g.i])
         IN  IF pass.err # "none"
             THEN [g |-> pass.g, err |-> pass.err]
             ELSE AloneLoop(pass.g, pass.d, lo, b, ds)

Alone(args, is_loaded, ds) ==
    LET d == WorkflowOf(args)
        b == IF args.needs_init_custom_nodes THEN Registered(is_loaded) ELSE {}
        st == IF \E i \in 1..Len(d) : d[i].class_type \notin Registered(is_loaded)
              THEN [NewDet EXCEPT !.err = "KeyError"]
              ELSE DetermineLoadOrderFrom(NewDet, d)
        fail(e, lo) == [err |-> e, load_order |-> lo, out |-> <<>>]
    IN  IF st.err # "none" THEN fail(st.err, <<>>)
        ELSE LET l == AloneLoop(NewLocals(args.queue_size), d, st.load_order, b, ds)
             IN  IF l.err # "none" THEN fail(l.err, st.load_order)
                 ELSE LET t == AssemblePythonCode(l.g.import_statements,
                                   l.g.special_functions_code, l.g.code,
                                   l.g.queue_size, l.g.custom_nodes)
                      IN  IF t.err # "none" THEN fail(t.err, st.load_order)
                          ELSE [err |-> "none", load_order |-> st.load_order,
                                out |-> <<t.text>>]

(***************************************************************************)
(* C14: of two constructions with the same arguments in one process, the   *)
(* later never instantiates through a static import a class the earlier    *)
(* instantiated through NODE_CLASS_MAPPINGS[...].                          *)
(***************************************************************************)
C14_BaselineWithoutCustom ==
    \A r1, r2 \in 1..Len(runs) :
        (/\ r1 < r2
         /\ runs[r1].args = runs[r2].args
         /\ runs[r1].pc = "done" /\ runs[r2].pc = "done")
        => \A s1 \in InitsOf(runs[r1].out[1]) :
              \A s2 \in InitsOf(runs[r2].out[1]) :
                 (s1.var = s2.var /\ ~s1.static) => ~s2.static

(***************************************************************************)
(* C15: while the registry stays as it is, a construction that runs        *)
(* interleaved with others ends as it does alone: the same error or the    *)
(* same load order and the same text written, and its determiner holds     *)
(* its own load order.                                                     *)
(***************************************************************************)
C15_RunsIndependent ==
    (\A q \in 1..Len(runs) : runs[q].seen = loaded)
    => \A r \in 1..Len(runs) :
          (runs[r].pc \in {"done", "raised"} /\ runs[r].det > 0)
          => /\ \E ds \in [1..Len(WorkflowOf(runs[r].args)) -> 1..MaxDraw] :
                   [err |-> runs[r].err, load_order |-> runs[r].load_order,
                    out |-> runs[r].out] = Alone(runs[r].args, loaded, ds)
             /\ runs[r].pc = "done"
                   => heap[runs[r].det].load_order = runs[r].load_order

\* The second construction has written its program while the first, of
\* another workflow, is in the middle of determine_load_order.
C15_Witness ==
    /\ Len(runs) > 1
    /\ \A q \in 1..Len(runs) : runs[q].seen = loaded
    /\ runs[1].pc = "second" /\ runs[2].pc = "done"
    /\ runs[1].data # runs[2].data

(***************************************************************************)
(* C16: a construction with both workflow and input_file, with neither, or *)
(* without output_file raises ValueError and nothing is read, resolved,    *)
(* generated or written; any other construction writes at most once, and   *)
(* once when it ends without an exception.                                 *)
(***************************************************************************)
C16_ArgumentsChecked ==
    \A r \in 1..Len(runs) :
        LET a == runs[r].args
            both == a.workflow # <<>> /\ a.input_file # <<>>
            neither == a.workflow = <<>> /\ a.input_file = <<>>
        IN  IF both \/ neither \/ ~a.output_file
            THEN /\ runs[r].pc = "raised" /\ runs[r].err = "ValueError"
                 /\ runs[r].reads = 0 /\ runs[r].det = 0
                 /\ runs[r].load_order = <<>> /\ runs[r].gen = NoGen
                 /\ runs[r].out = <<>>
            ELSE /\ Len(runs[r].out) <= 1
                 /\ runs[r].pc = "done" <=> Len(runs[r].out) = 1
                 /\ runs[r].pc = "done" => (runs[r].reads = 1 /\ runs[r].det > 0)
                 /\ runs[r].err = "ValueError" => FALSE

\* One construction raised for a missing output_file, another has
\* written its program.
C16_Witness ==
    \E r1, r2 \in 1..Len(runs) :
        /\ ~runs[r1].args.output_file /\ runs[r1].args.workflow # <<>>
        /\ runs[r1].pc = "raised"
        /\ runs[r2].pc = "done" /\ Len(runs[r2].out) = 1

(***************************************************************************)
(* C17: for an acyclic workflow of registered classes generate_workflow    *)
(* returns a text, that is, black finds valid Python: no call ends with    *)
(* an error.                                                               *)
(***************************************************************************)
C17_ValidPython ==
    \A i \in 1..Len(texts) :
        (~HasCycle(data) /\ AllRegistered(data)) => texts[i].err = "none"

(***************************************************************************)
(* C18: the call statement of every entry whose class has a coroutine      *)
(* function as FUNCTION awaits the call.                                   *)
(***************************************************************************)
C18_CoroutineAwaited ==
    \A c \in EmittedCalls :
        NodeOf(data, c.node).class_type \in AsyncTypes => c.awaited

(***************************************************************************)
(* Hoisting as the claims read it.                                         *)
(***************************************************************************)
\* No input of the node is a list.
PureLiteral(node) == \A i \in 1..Len(node.inputs) : ~IsList(node.inputs[i].v)
\* The node is of the loaders category or its FUNCTION is "encode".
LoaderOrEncode(node) ==
    \/ NODE_CLASS_MAPPINGS[node.class_type].CATEGORY = "loaders"
    \/ NODE_CLASS_MAPPINGS[node.class_type].FUNCTION = "encode"
\* A loader, an encoder or a pure-literal node reads the node, directly
\* or through other nodes.
FeedsHoistable(d, key) ==
    \E h \in 1..Len(d) :
        /\ LoaderOrEncode(d[h]) \/ PureLiteral(d[h])
        /\ key \in Reached(d, Sources(d[h]), Len(d))
\* The place and the flag of a node in a plan.
PlaceIn(plan, key) == CHOOSE p \in 1..Len(plan) : plan[p].id = key
HoistedIn(plan, key) == plan[PlaceIn(plan, key)].hoisted
\* The pairs (a, b) of the graph: a is pure-literal and b reads a.
LiteralFeeds(d) ==
    {<<a, b>> \in (1..Len(d)) \X (1..Len(d)) :
        PureLiteral(d[a]) /\ d[a].key \in Sources(d[b])}

(***************************************************************************)
(* C19, as claimed: in a returned plan, for a pure-literal node A read by  *)
(* a node B, A is hoisted, B stands before every node that reads B, and B  *)
(* is hoisted only if B is a loader or an encoder.                         *)
(***************************************************************************)
C19_HoistedOnlyIfQualifies ==
    \A r \in 1..Len(returns) : \A ab \in LiteralFeeds(data) :
        returns[r].err = "none" =>
            LET plan == returns[r].plan
                A == data[ab[1]]
                B == data[ab[2]]
            IN  /\ HoistedIn(plan, A.key)
                /\ \A c \in 1..Len(data) :
                      B.key \in Sources(data[c])
                      => PlaceIn(plan, B.key) < PlaceIn(plan, data[c].key)
                /\ HoistedIn(plan, B.key) => LoaderOrEncode(B)

(***************************************************************************)
(* C19, amended: in a returned plan, for a pure-literal node A read by a   *)
(* node B, A is hoisted; in an acyclic graph B stands before every node    *)
(* that reads B; and B is hoisted only if B is a loader or an encoder or   *)
(* is read, directly or through other nodes, by a hoistable node.          *)
(***************************************************************************)
C19_HoistedOnlyByRoot ==
    \A r \in 1..Len(returns) : \A ab \in LiteralFeeds(data) :
        returns[r].err = "none" =>
            LET plan == returns[r].plan
                A == data[ab[1]]
                B == data[ab[2]]
            IN  /\ HoistedIn(plan, A.key)
                /\ ~HasCycle(data) =>
                      \A c \in 1..Len(data) :
                          B.key \in Sources(data[c])
                          => PlaceIn(plan, B.key) < PlaceIn(plan, data[c].key)
                /\ HoistedIn(plan, B.key)
                      => (LoaderOrEncode(B) \/ FeedsHoistable(data, B.key))

\* A returned plan for a literal sampler read by a sampler, itself read by
\* an encoder: the middle sampler is hoisted.
C19_Witness ==
    /\ Len(returns) > 0 /\ returns[1].err = "none"
    /\ ~HasCycle(data)
    /\ \E ab \in LiteralFeeds(data) : \E c \in 1..Len(data) :
          /\ data[ab[1]].class_type = Sampler
          /\ data[ab[2]].class_type = Sampler
          /\ data[c].class_type = Encoder
          /\ data[ab[2]].key \in Sources(data[c])
          /\ HoistedIn(returns[1].plan, data[ab[2]].key)

(***************************************************************************)
(* C20: a returned plan holds every node id of the graph in exactly one    *)
(* entry and no other id, and each entry carries the node of its id.       *)
(***************************************************************************)
C20_PlanIsTotalOrder ==
    \A r \in 1..Len(returns) :
        returns[r].err = "none" =>
            LET plan == returns[r].plan
            IN  /\ Len(plan) = Len(data)
                /\ {plan[p].id : p \in 1..Len(plan)} = Keys(data)
                /\ \A p \in 1..Len(plan) : plan[p].data = plan[p].id

\* A returned plan of two entries, the first of them from the second loop
\* of determine_load_order.
C20_Witness ==
    /\ Len(returns) > 0 /\ returns[1].err = "none"
    /\ Len(returns[1].plan) = 2
    /\ ~returns[1].plan[1].hoisted /\ ~returns[1].plan[2].hoisted

(***************************************************************************)
(* C21: in a plan returned for an acyclic graph, an entry is hoisted       *)
(* exactly when its node is a loader, an encoder or a pure-literal node,   *)
(* or is read, directly or through other nodes, by such a node; every      *)
(* other entry is not hoisted.                                             *)
(***************************************************************************)
C21_HoistedExactly ==
    \A r \in 1..Len(returns) :
        (returns[r].err = "none" /\ ~HasCycle(data)) =>
            \A p \in 1..Len(returns[r].plan) :
                LET e == returns[r].plan[p]
                    node == NodeOf(data, e.id)
                IN  e.hoisted <=> \/ LoaderOrEncode(node)
                                  \/ PureLiteral(node)
                                  \/ FeedsHoistable(data, e.id)

\* A returned plan for an acyclic chain: a hoisted loader, an ordinary
\* node that reads it and an ordinary node that reads that one, neither of
\* the two hoisted.
C21_Witness ==
    /\ Len(returns) > 0 /\ returns[1].err = "none"
    /\ ~HasCycle(data)
    /\ \E a, b, c \in 1..Len(data) :
          /\ data[a].class_type = Loader
          /\ ~LoaderOrEncode(data[b]) /\ Sources(data[b]) = {data[a].key}
          /\ ~LoaderOrEncode(data[c]) /\ Sources(data[c]) = {data[b].key}
          /\ HoistedIn(returns[1].plan, data[a].key)
          /\ ~HoistedIn(returns[1].plan, data[b].key)
          /\ ~HoistedIn(returns[1].plan, data[c].key)

(***************************************************************************)
(* The statements of a returned program, in program order: the setup       *)
(* block, then the loop.                                                   *)
(***************************************************************************)
Program(t) == t.setup \o t.loop
\* The class of the node a call statement was generated for.
ClassOfCall(c) == NodeOf(data, c.node).class_type
\* The places of the instantiations of a class, and of the calls on it.
InitPlaces(t, ct) ==
    {i \in 1..Len(Program(t)) :
        Program(t)[i].kind = "init" /\ Program(t)[i].cls = ct}
CallPlaces(t, ct) ==
    {i \in 1..Len(Program(t)) :
        Program(t)[i].kind = "call" /\ ClassOfCall(Program(t)[i]) = ct}

(***************************************************************************)
(* C22: a returned program holds exactly one instantiation for each class  *)
(* that has a call statement and none for any other class, and the         *)
(* instantiation stands before every call on that instance, in the setup   *)
(* block or in the loop.                                                   *)
(***************************************************************************)
C22_OneInstantiationPerType ==
    \A t \in ReturnedTexts : \A ct \in DOMAIN NODE_CLASS_MAPPINGS :
        /\ Cardinality(InitPlaces(t, ct)) =
               (IF CallPlaces(t, ct) # {} THEN 1 ELSE 0)
        /\ \A i \in InitPlaces(t, ct) : \A c \in CallPlaces(t, ct) :
              /\ i < c
              /\ Program(t)[c].obj = Program(t)[i].var

\* A returned program with two calls on one sampler instance, one of them
\* in the loop.
C22_Witness ==
    \E t \in ReturnedTexts :
        /\ Cardinality(CallPlaces(t, Sampler)) = 2
        /\ \E c \in CallPlaces(t, Sampler) : c > Len(t.setup)

(***************************************************************************)
(* C23: in a returned program a class is instantiated through its import   *)
(* (its name is imported from nodes) exactly when it is a key of the       *)
(* baseline, and through NODE_CLASS_MAPPINGS otherwise; the program calls  *)
(* import_custom_nodes() exactly when some instantiated class is no key of *)
(* the baseline.  With an empty baseline every class is looked up.         *)
(***************************************************************************)
C23_StaticIffBaseline ==
    \A t \in ReturnedTexts :
        LET inits == {i \in 1..Len(t.setup) : t.setup[i].kind = "init"}
            imported == {t.imports[i] : i \in 1..Len(t.imports)}
        IN  /\ \A c \in CallsOf(Program(t)) : \E i \in inits :
                  t.setup[i].cls = ClassOfCall(c)
            /\ \A i \in inits :
                  /\ t.setup[i].static <=> t.setup[i].cls \in base
                  /\ t.setup[i].cls \in imported <=> t.setup[i].cls \in base
                  /\ base = {} => ~t.setup[i].static
            /\ t.import_custom_nodes <=>
                  \E i \in inits : t.setup[i].cls \notin base

\* A returned program under the baseline of the built-in classes, with a
\* sampler instantiated through its import and a custom class looked up.
C23_Witness ==
    \E t \in ReturnedTexts :
        /\ base = BuiltinTypes
        /\ t.import_custom_nodes
        /\ \E i, j \in 1..Len(t.setup) :
              /\ t.setup[i].kind = "init" /\ t.setup[i].static
              /\ t.setup[i].cls = Sampler
              /\ t.setup[j].kind = "init" /\ ~t.setup[j].static
              /\ t.setup[j].cls = CustomId

(***************************************************************************)
(* The keyword arguments of a call statement, and the declared parameters  *)
(* of a class's FUNCTION.                                                  *)
(***************************************************************************)
Keywords(c) == {c.args[a].k : a \in 1..Len(c.args)}
Declared(class_def) == {class_def.params[j] : j \in 1..Len(class_def.params)}

C25_UsableIdentifier ==
    /\ Len(clean_names) >= 1 =>
          /\ clean_names[1].err = "none"
          /\ clean_names[1].name # <<>>
          /\ \A i \in 1..Len(clean_names[1].name) :
                clean_names[1].name[i] \in NameChars
          /\ clean_names[1].name[1] \notin Digits
    /\ Len(clean_names) = 2 => clean_names[2] = clean_names[1]

(***************************************************************************)
(* C26: no entry of class PreviewImage is emitted: neither the running     *)
(* call nor a returned program holds an instantiation of the class or a    *)
(* call statement for such an entry, and no variable is bound for one.     *)
(***************************************************************************)
C26_PreviewNeverEmitted ==
    /\ \A c \in EmittedCalls : ClassOfCall(c) # PreviewImage
    /\ \A t \in ReturnedTexts : InitPlaces(t, PreviewImage) = {}
    /\ gen.pc = "loop" =>
          /\ \A i \in 1..Len(gen.special_functions_code) :
                gen.special_functions_code[i].kind = "init"
                => gen.special_functions_code[i].cls # PreviewImage
          /\ \A id \in DOMAIN gen.executed_variables :
                NodeOf(data, id).class_type # PreviewImage
          /\ PreviewImage \notin DOMAIN gen.initialized_objects

\* The loop has passed a PreviewImage entry that holds its required input
\* and stands second in the load order, after an entry that was emitted.
C26_Witness ==
    /\ gen.pc = "loop" /\ gen.i = 3
    /\ NodeOf(data, det.load_order[2].data).class_type = PreviewImage
    /\ ~LacksRequired(NodeOf(data, det.load_order[2].data))
    /\ \E c \in EmittedCalls : c.node = det.load_order[1].id

(***************************************************************************)
(* C27: the value of every unique_id keyword that generate_workflow drew   *)
(* is an integer of at most 64 bits, from 0 to 2^64 - 1, whatever the      *)
(* draw.                                                                   *)
(***************************************************************************)
\* 0 <= v < 2^bits, for bits a multiple of 16
FitsBits(v, bits) ==
    /\ v.t = "int"
    /\ Len(v.digits) <= bits \div 16
    /\ \A i \in 1..Len(v.digits) : v.digits[i] \in 0..(Radix - 1)

C27_UniqueIdFits64 ==
    \A c \in EmittedCalls : \A a \in 1..Len(c.args) :
        (c.args[a].k = "unique_id"
         /\ "unique_id" \notin InputKeys(NodeOf(data, c.node).inputs))
        => FitsBits(c.args[a].v, 64)

(***************************************************************************)
(* C28: an input whose value is a list literal is a literal: the           *)
(* determiner follows no edge for it and raises nothing over it, a node    *)
(* whose list-valued inputs are all list literals is hoisted, and the call *)
(* statement passes the list as it stands.                                 *)
(***************************************************************************)
IsListLiteral(v) == IsList(v) /\ ~IsReference(v)
OnlyListLiterals(node) ==
    \A i \in 1..Len(node.inputs) : ~IsReference(node.inputs[i].v)

C28_ListLiteralIsLiteral ==
    /\ \A r \in 1..Len(returns) :
          /\ returns[r].err = "none"
          /\ \A p \in 1..Len(returns[r].plan) :
                OnlyListLiterals(NodeOf(data, returns[r].plan[p].id))
                => returns[r].plan[p].hoisted
    /\ \A c \in EmittedCalls : \A a \in 1..Len(c.args) :
          LET inputs == NodeOf(data, c.node).inputs
              k == c.args[a].k
          IN  (k \in InputKeys(inputs) /\ IsListLiteral(InputVal(inputs, k)))
              => (c.args[a].e = "str" /\ c.args[a].v = InputVal(inputs, k))

(***************************************************************************)
(* C29: in a program returned for an acyclic graph, every variable that a  *)
(* call statement reads through get_value_at_index is assigned by a call   *)
(* statement that stands earlier in the program, and a statement of the    *)
(* setup block reads only variables assigned in the setup block.           *)
(***************************************************************************)
\* The variables the statement at place i of the program reads.
ReadsAt(t, i) ==
    IF Program(t)[i].kind # "call" THEN {}
    ELSE {Program(t)[i].args[a].x.var :
            a \in {b \in 1..Len(Program(t)[i].args) :
                      Program(t)[i].args[b].e = "expr"}}
\* The places of the call statements that assign the variable.
AssignedAt(t, var) ==
    {j \in 1..Len(Program(t)) :
        Program(t)[j].kind = "call" /\ Program(t)[j].var = var}

C30_IdentifiersDistinct ==
    gen.pc = "loop" =>
        /\ \A a, b \in DOMAIN gen.initialized_objects :
              a # b => gen.initialized_objects[a] # gen.initialized_objects[b]
        /\ \A id \in DOMAIN gen.executed_variables :
              \A ct \in DOMAIN gen.initialized_objects :
                 gen.executed_variables[id] # gen.initialized_objects[ct]

====
